---- MODULE Spec2Model ----
(***************************************************************************)
(* Model of src/handler.js: the four Lambda handlers create_template,      *)
(* compare_list, info and get_list, with the object store (S3) and the     *)
(* face comparator (Rekognition) as external services that complete each   *)
(* call with a nondeterministic outcome.                                   *)
(*                                                                         *)
(* One invocation runs at a time; it ends once it has no external call     *)
(* outstanding, and the next one starts from fresh locals.  `store`        *)
(* persists across invocations.                                            *)
(*                                                                         *)
(* Request bodies are JSON objects (JSON.parse(event.body) succeeds and    *)
(* yields an object).                                                      *)
(***************************************************************************)
EXTENDS Integers, Sequences, FiniteSets, TLC

\* Longest TemplateList drawn as an input.
MaxLen == 2

----------------------------------------------------------------------------
\* JavaScript values that travel through the handlers.  `type` tells what
\* the value is; Bucket/Name carry the S3 location where there is one.

JsValue(type, b, n) == [type |-> type, Bucket |-> b, Name |-> n]

\* a field that is absent from the request body
Undefined == JsValue("undefined", "", "")
\* the literal "" of line 117
EmptyString == JsValue("string", "", "")
\* a string that is not the base64 text of a JSON document
GarbageString == JsValue("string", "garbage", "")
\* the literal {} of line 98
EmptyObject == JsValue("object", "", "")
\* a base64 string of image bytes
ImageString == JsValue("base64image", "", "")

\* handler.js:7
bucketName == "mw-dhs-code-assessment"

OtherBucket == "caller-bucket"

\* { S3Object: { Bucket, Name } }   (lines 44-49, 205-210)
Template(b, n) == JsValue("S3Object", b, n)

\* new Buffer(JSON.stringify(template)).toString("Base64")  (lines 62, 213)
EncodeTemplate(t) == JsValue("base64json", t.Bucket, t.Name)

\* Buffer.from(x, "base64") throws a TypeError exactly when x is not a
\* string (lines 19, 101, 124); any string, base64 or not, yields a Buffer.
BufferFromThrows(x) == x.type \notin {"string", "base64image", "base64json"}

\* JSON.parse(Buffer.from(x, "base64")) (lines 101, 123-125): throws when
\* Buffer.from throws or when the decoded bytes are not a JSON document.
DecodeThrows(x) == BufferFromThrows(x) \/ x.type # "base64json"

\* the value JSON.parse(Buffer.from(x, "base64")) yields when it does not throw
Decode(x) == JsValue("S3Object", x.Bucket, x.Name)

----------------------------------------------------------------------------
\* Inputs

Keys == {"1.png", "2.png"}

StoredTemplates == {EncodeTemplate(Template(bucketName, k)) : k \in Keys}

\* what a caller can put in SingleTemplate
SingleTemplates == {Undefined, GarbageString, EncodeTemplate(Template(bucketName, "1.png"))}

\* what a caller can put in an entry of TemplateList
ListEntries == {Undefined, GarbageString} \cup StoredTemplates

TemplateLists == UNION {[1..n -> ListEntries] : n \in 0..MaxLen}

ImageDatas == {Undefined, GarbageString, ImageString}

NoEvent ==
  [ImageData |-> Undefined, bucketname |-> "", SingleTemplate |-> Undefined,
   hasTemplateList |-> FALSE, TemplateList |-> <<>>]

CreateEvents ==
  {[NoEvent EXCEPT !.ImageData = i, !.bucketname = b] :
      i \in ImageDatas, b \in {bucketName, OtherBucket}}

CompareEvents ==
  {[NoEvent EXCEPT !.SingleTemplate = s] : s \in SingleTemplates}
  \cup
  {[NoEvent EXCEPT !.SingleTemplate = s, !.hasTemplateList = TRUE, !.TemplateList = l] :
      s \in SingleTemplates, l \in TemplateLists}

\* Rekognition's answer to one compareFaces call: an error, or data whose
\* FaceMatches lists the similarities (percent) of the matched faces.
Outcomes ==
  {[err |-> TRUE, FaceMatches |-> <<>>]}
  \cup {[err |-> FALSE, FaceMatches |-> m] : m \in {<<>>, <<87>>, <<42, 87>>}}

\* S3's answer to listObjects
InitialStores == {[b \in {bucketName, OtherBucket} |-> IF b = bucketName THEN ks ELSE {}] :
                     ks \in SUBSET Keys}

----------------------------------------------------------------------------
\* Responses handed to the Lambda callback

\* a number x / d
Quotient(x, d) == [num |-> x, den |-> d]
\* the literal 0 of line 149
Zero == [num |-> 0, den |-> 1]

Response(status, kind, text, list) ==
  [statusCode |-> status, kind |-> kind, text |-> text, list |-> list]

\* lines 21-30
ImageDataInvalid == Response(400, "text", "ImageData missing or invalid", <<>>)
\* lines 82-93
TemplateListMissing ==
  Response(400, "text", "Request is not properly formated.  TemplateList parameter is missing", <<>>)
\* lines 103-112
SingleTemplateInvalid == Response(400, "text", "SingleTemplate missing or invalid", <<>>)
\* lines 127-136
TemplateListInvalid == Response(400, "text", "TemplateList missing or invalid", <<>>)
\* lines 154-164 (statusCode is written "200" there, and "400" at line 83;
\* the status it stands for is kept)
SuccessReturn(list) == Response(200, "resultList", "", list)
\* lines 184-193
InfoResponse == Response(200, "info", "AWS Rekognition", <<>>)
\* lines 217-226
ListResponse(list) == Response(200, "list", "", list)

\* callback(err, response)
Callback(err, response) == [err |-> err, response |-> response]

----------------------------------------------------------------------------
VARIABLES
  handler,     \* the handler of the current invocation
  event,       \* its request body
  cb,          \* the callback invocations it has made, in order
  thrown,      \* the exception that escaped it, or "none"
  params,      \* compare_list: params (lines 115-118)
  resultList,  \* compare_list: resultList (line 119)
  inflight,    \* compareFaces calls issued and not yet completed
  calls,       \* every compareFaces call of this invocation, in issue order
  s3calls,     \* every S3 request of this invocation, in issue order
  listPending, \* a listObjects request is outstanding
  store        \* the object store: bucket -> keys

vars == <<handler, event, cb, thrown, params, resultList, inflight, calls,
          s3calls, listPending, store>>

InitialParams == [SourceImage |-> EmptyObject, TargetImage |-> EmptyString]

Init ==
  /\ handler = "none"
  /\ event = NoEvent
  /\ cb = <<>>
  /\ thrown = "none"
  /\ params = InitialParams
  /\ resultList = <<>>
  /\ inflight = {}
  /\ calls = <<>>
  /\ s3calls = <<>>
  /\ listPending = FALSE
  /\ store \in InitialStores

\* no invocation is running: the handlers are exported (lines 16, 77, 173,
\* 197) for the runtime to call, one invocation at a time
Idle == handler = "none"

\* the invocation ends once nothing of it is still running; the next one
\* starts from fresh locals
invocationEnd ==
  /\ handler # "none"
  /\ inflight = {}
  /\ ~listPending
  /\ handler' = "none"
  /\ event' = NoEvent
  /\ cb' = <<>>
  /\ thrown' = "none"
  /\ params' = InitialParams
  /\ resultList' = <<>>
  /\ calls' = <<>>
  /\ s3calls' = <<>>
  /\ UNCHANGED <<inflight, listPending, store>>

----------------------------------------------------------------------------
\* create_template (lines 16-68)

\* `let decodedImage` (line 19) is declared inside the try block, so the name
\* is not in scope at line 39, where `Body: decodedImage` is evaluated.
DecodedImageInScope == FALSE

\* the key of line 36, for a clock reading that prints as `ms`
TimestampKey(ms) == IF ms = 1 THEN "1.png" ELSE "2.png"

\* s3.upload(params, ...) with the params of lines 38-42
UploadRequest(data, key) == [op |-> "upload", Bucket |-> data.bucketname, Key |-> key]

create_template(e, ms) ==
  /\ Idle
  /\ handler' = "create_template"
  /\ event' = e
  \* lines 18-32: the catch block answers 400 and falls through
  /\ cb' = IF BufferFromThrows(e.ImageData)
             THEN <<Callback("null", ImageDataInvalid)>>
             ELSE <<>>
  \* lines 36-51: evaluating the object literal of line 38 raises a
  \* ReferenceError before s3.upload is reached
  /\ IF DecodedImageInScope
       THEN /\ thrown' = "none"
            /\ s3calls' = <<UploadRequest(e, TimestampKey(ms))>>
       ELSE /\ thrown' = "ReferenceError"
            /\ s3calls' = <<>>
  /\ params' = InitialParams
  /\ resultList' = <<>>
  /\ inflight' = {}
  /\ calls' = <<>>
  /\ UNCHANGED <<listPending, store>>

----------------------------------------------------------------------------
\* compare_list (lines 77-171)

\* templateList[iteration]: JavaScript indexes from 0, and reading past the
\* end of an array yields undefined
Entry(templateList, iteration) ==
  IF iteration + 1 \in DOMAIN templateList
    THEN templateList[iteration + 1]
    ELSE Undefined

\* PushResult reading the last reported match instead of the first
PushResultLastMatch(list, outcome) ==
  IF outcome.err THEN list
  ELSE IF Len(outcome.FaceMatches) > 0
         THEN Append(list, Quotient(outcome.FaceMatches[Len(outcome.FaceMatches)], 100))
         ELSE Append(list, Zero)

\* PushResult recording a failed comparison as "no match"
PushResultZeroOnError(list, outcome) ==
  IF outcome.err THEN Append(list, Zero)
  ELSE IF Len(outcome.FaceMatches) > 0
         THEN Append(list, Quotient(outcome.FaceMatches[1], 100))
         ELSE Append(list, Zero)

\* lines 144-150, with the err branch of lines 141-143 pushing nothing
PushResult(list, outcome) ==
  IF outcome.err THEN list
  ELSE IF Len(outcome.FaceMatches) > 0
         THEN Append(list, Quotient(outcome.FaceMatches[1], 100))
         ELSE Append(list, Zero)

\* HasNext comparing against iteration instead of iteration + 1
HasNextOffByOne(templateList, iteration) == Len(templateList) > iteration

\* line 151
HasNext(templateList, iteration) == Len(templateList) > iteration + 1

\* NextIteration stepping over a candidate
NextIterationSkip(iteration) == iteration + 2

\* the argument of line 152
NextIteration(iteration) == iteration + 1

\* lines 122-138: a candidate that decodes replaces params.TargetImage; one
\* that does not leaves params as it was
TargetParams(p, templateList, iteration) ==
  IF DecodeThrows(Entry(templateList, iteration))
    THEN p
    ELSE [p EXCEPT !.TargetImage = Decode(Entry(templateList, iteration))]

\* lines 126-138: the catch block answers 400 and falls through to line 140
TargetCallbacks(c, templateList, iteration) ==
  IF DecodeThrows(Entry(templateList, iteration))
    THEN Append(c, Callback("null", TemplateListInvalid))
    ELSE c

\* the compareFaces calls that line 140 issues on entering
\* recursiveRekognition(iteration); `id` is the call's place in `calls`
IssuedCalls(id, iteration) == {[id |-> id, iteration |-> iteration]}

NoOutcome == [err |-> FALSE, FaceMatches |-> <<>>]

\* recursiveRekognition(iteration) up to the return of compareFaces
\* (lines 121-140): st holds params, cb, inflight and calls
recursiveRekognition(st, templateList, iteration) ==
  LET p == TargetParams(st.params, templateList, iteration)
      new == IssuedCalls(Len(st.calls) + 1, iteration)
  IN  [params |-> p,
       cb |-> TargetCallbacks(st.cb, templateList, iteration),
       inflight |-> st.inflight \cup new,
       calls |-> IF new = {} THEN st.calls
                 ELSE Append(st.calls, [iteration |-> iteration, params |-> p,
                                        done |-> FALSE, outcome |-> NoOutcome])]

\* lines 98-114: the catch block answers 400 and falls through to line 115
SourceCallbacks(data) ==
  IF DecodeThrows(data.SingleTemplate)
    THEN <<Callback("null", SingleTemplateInvalid)>>
    ELSE <<>>

\* lines 98-102: sourceImage keeps its initial {} when the decode throws
SourceImage(data) ==
  IF DecodeThrows(data.SingleTemplate)
    THEN EmptyObject
    ELSE Decode(data.SingleTemplate)

\* line 81: !templateList holds for a missing list; an array, empty or not,
\* is truthy
TemplateListAbsent(data) == ~data.hasTemplateList

compare_list(e) ==
  /\ Idle
  /\ handler' = "compare_list"
  /\ event' = e
  /\ thrown' = "none"
  /\ resultList' = <<>>
  /\ s3calls' = <<>>
  /\ UNCHANGED <<listPending, store>>
  /\ IF TemplateListAbsent(e)
       THEN \* lines 81-96
            /\ cb' = <<Callback("null", TemplateListMissing)>>
            /\ params' = InitialParams
            /\ inflight' = {}
            /\ calls' = <<>>
       ELSE \* lines 98-119, then recursiveRekognition(0) at line 170
            LET st == recursiveRekognition(
                        [params |-> [SourceImage |-> SourceImage(e),
                                     TargetImage |-> EmptyString],
                         cb |-> SourceCallbacks(e),
                         inflight |-> {},
                         calls |-> <<>>],
                        e.TemplateList, 0)
            IN  /\ cb' = st.cb
                /\ params' = st.params
                /\ inflight' = st.inflight
                /\ calls' = st.calls

\* the completion callback of compareFaces (lines 140-167) for call c
\* with Rekognition's answer o
compareFacesCallback(c, o) ==
  /\ c \in inflight
  /\ resultList' = PushResult(resultList, o)
  /\ LET logged == [calls EXCEPT ![c.id].done = TRUE, ![c.id].outcome = o]
         rest == inflight \ {c}
     IN  IF HasNext(event.TemplateList, c.iteration)
           THEN LET st == recursiveRekognition(
                            [params |-> params, cb |-> cb,
                             inflight |-> rest, calls |-> logged],
                            event.TemplateList, NextIteration(c.iteration))
                IN  /\ cb' = st.cb
                    /\ params' = st.params
                    /\ inflight' = st.inflight
                    /\ calls' = st.calls
           ELSE /\ cb' = Append(cb, Callback("null", SuccessReturn(resultList')))
                /\ inflight' = rest
                /\ calls' = logged
                /\ UNCHANGED params
  /\ UNCHANGED <<handler, event, thrown, s3calls, listPending, store>>

----------------------------------------------------------------------------
\* info (lines 173-195)

info ==
  /\ Idle
  /\ handler' = "info"
  /\ event' = NoEvent
  /\ cb' = <<Callback("null", InfoResponse)>>
  /\ thrown' = "none"
  /\ params' = InitialParams
  /\ resultList' = <<>>
  /\ inflight' = {}
  /\ calls' = <<>>
  /\ s3calls' = <<>>
  /\ UNCHANGED <<listPending, store>>

----------------------------------------------------------------------------
\* get_list (lines 197-230)

\* s3.listObjects(params, ...) with the params of line 199
ListRequest == [op |-> "listObjects", Bucket |-> bucketName, Key |-> ""]

\* lines 204-215: one entry per listed key
ListEntry(key) == [Name |-> key, Template |-> EncodeTemplate(Template(bucketName, key))]

\* the orders in which the store may list the keys ks
Listings(ks) ==
  {l \in [1..Cardinality(ks) -> ks] : \A i, j \in DOMAIN l : i # j => l[i] # l[j]}

get_list ==
  /\ Idle
  /\ handler' = "get_list"
  /\ event' = NoEvent
  /\ cb' = <<>>
  /\ thrown' = "none"
  /\ params' = InitialParams
  /\ resultList' = <<>>
  /\ inflight' = {}
  /\ calls' = <<>>
  /\ s3calls' = <<ListRequest>>
  /\ listPending' = TRUE
  /\ UNCHANGED store

\* the completion callback of listObjects (lines 200-229); on an error the
\* handler logs and never calls back
listObjectsCallback(err, contents) ==
  /\ listPending
  /\ listPending' = FALSE
  /\ cb' = IF err THEN cb
           ELSE Append(cb, Callback("null",
                  ListResponse([i \in DOMAIN contents |-> ListEntry(contents[i])])))
  /\ UNCHANGED <<handler, event, thrown, params, resultList, inflight, calls,
                 s3calls, store>>

----------------------------------------------------------------------------
Next ==
  \/ \E e \in CreateEvents, ms \in {1, 2} : create_template(e, ms)
  \/ \E e \in CompareEvents : compare_list(e)
  \/ \E c \in inflight, o \in Outcomes : compareFacesCallback(c, o)
  \/ info
  \/ get_list
  \/ \E err \in BOOLEAN, l \in Listings(store[bucketName]) : listObjectsCallback(err, l)
  \/ invocationEnd

Spec == Init /\ [][Next]_vars

\* Rekognition completes every call it accepted
FairSpec == Spec /\ WF_vars(\E c \in inflight, o \in Outcomes : compareFacesCallback(c, o))

----------------------------------------------------------------------------
\* Vocabulary of the properties

\* lines 55-64: the answer create_template gives for the descriptor t
TemplateResponse(t) == Response(200, "template", "", <<EncodeTemplate(t)>>)

\* a compare_list invocation that got past the presence check of line 81
Comparing == handler = "compare_list" /\ event.hasTemplateList

Candidates == event.TemplateList

\* every comparator call of the invocation has completed
Finished == inflight = {}

AllDecode ==
  /\ ~DecodeThrows(event.SingleTemplate)
  /\ \A i \in DOMAIN Candidates : ~DecodeThrows(Candidates[i])

Succeeded == {i \in DOMAIN calls : calls[i].done /\ ~calls[i].outcome.err}

Failed == {i \in DOMAIN calls : calls[i].done /\ calls[i].outcome.err}

LastResponse == cb[Len(cb)].response

\* the score the comparator's answer o stands for
Score(o) == IF o.FaceMatches = <<>> THEN Zero ELSE Quotient(o.FaceMatches[1], 100)

\* ImageData that is the base64 text of image bytes
ImageDecodable(x) == x.type = "base64image"

----------------------------------------------------------------------------
\* C1: a compare_list request whose SingleTemplate and N >= 1 candidates all
\* decode, and whose comparator calls all succeed, is answered once, with
\* status 200 and a list of N scores; call i compared the reference with
\* candidate i, and score i is that call's first match / 100, or 0 when it
\* reported no match.
C1_ScoresInOrder ==
  (Comparing /\ Len(Candidates) >= 1 /\ AllDecode /\ Finished
     /\ Succeeded = DOMAIN calls)
  => /\ Len(cb) = 1
     /\ cb[1].err = "null"
     /\ cb[1].response.statusCode = 200
     /\ cb[1].response.kind = "resultList"
     /\ Len(cb[1].response.list) = Len(Candidates)
     /\ Len(calls) = Len(Candidates)
     /\ \A i \in DOMAIN Candidates :
          /\ calls[i].params.SourceImage = Decode(event.SingleTemplate)
          /\ calls[i].params.TargetImage = Decode(Candidates[i])
          /\ cb[1].response.list[i] = Score(calls[i].outcome)

\* the scenario of the specification: similarities [87, no match] give [0.87, 0]
C1_Witness ==
  /\ Comparing /\ AllDecode /\ Finished
  /\ Len(Candidates) = 2
  /\ Len(calls) = 2
  /\ calls[1].outcome = [err |-> FALSE, FaceMatches |-> <<87>>]
  /\ calls[2].outcome = [err |-> FALSE, FaceMatches |-> <<>>]
  /\ cb = <<Callback("null", SuccessReturn(<<Quotient(87, 100), Zero>>))>>

\* C2: comparator calls are issued in ascending index order from 0, call
\* i+1 only after the completion callback of call i, so at most one call is
\* outstanding.
C2_Sequential ==
  /\ Cardinality(inflight) <= 1
  /\ \A i \in DOMAIN calls :
       /\ calls[i].iteration = i - 1
       /\ i < Len(calls) => calls[i].done
  /\ \A c \in inflight : c.id = Len(calls) /\ ~calls[c.id].done

C2_Witness ==
  /\ Comparing
  /\ Len(calls) = 2
  /\ calls[1].done
  /\ inflight = {[id |-> 2, iteration |-> 1]}

\* C3: an empty TemplateList is answered 400 at once and no comparator call
\* is made.
C3_EmptyListRejected ==
  (Comparing /\ Len(Candidates) = 0)
  => /\ Len(cb) >= 1
     /\ cb[1].response.statusCode = 400
     /\ calls = <<>>

\* C4: once a candidate that does not decode has been answered with 400
\* "TemplateList missing or invalid", the batch is aborted: no response
\* carrying the result list is emitted.
C4_BatchAborted ==
  (Comparing /\ \E i \in DOMAIN Candidates : DecodeThrows(Candidates[i]))
  => /\ Finished => \E j \in DOMAIN cb : cb[j].response = TemplateListInvalid
     /\ \A j \in DOMAIN cb : cb[j].response.kind # "resultList"

\* C5: a create_template request whose ImageData is missing or malformed is
\* answered 400 "ImageData missing or invalid" and writes nothing.
C5_BadImageRejected ==
  (handler = "create_template" /\ ~ImageDecodable(event.ImageData))
  => /\ cb = <<Callback("null", ImageDataInvalid)>>
     /\ \A i \in DOMAIN s3calls : s3calls[i].op # "upload"

\* C6: a create_template request with decodable ImageData writes one object
\* and is answered 200 with the descriptor of the fixed bucket and a key
\* ending in ".png", the location the object was written to.
C6_DescriptorNamesWrittenObject ==
  (handler = "create_template" /\ ImageDecodable(event.ImageData))
  => \E k \in Keys :
       /\ cb = <<Callback("null", TemplateResponse(Template(bucketName, k)))>>
       /\ s3calls = <<[op |-> "upload", Bucket |-> bucketName, Key |-> k]>>

C8_BadReferenceRejected ==
  (Comparing /\ DecodeThrows(event.SingleTemplate))
  => /\ cb = <<Callback("null", SingleTemplateInvalid)>>
     /\ calls = <<>>

\* C9: for a TemplateList of N >= 1 entries the sequencer issues exactly N
\* comparator calls, none for an index >= N, and, every call completing,
\* emits the result list after the call for index N-1 completes.
C9_Started == Comparing /\ Len(Candidates) >= 1 /\ ~Finished

C9_FinalEmitted ==
  /\ Comparing /\ Finished
  /\ Len(calls) = Len(Candidates)
  /\ calls[Len(calls)].done
  /\ calls[Len(calls)].iteration = Len(Candidates) - 1
  /\ Len(cb) >= 1
  /\ LastResponse = SuccessReturn(resultList)

C9_ExactlyNCalls ==
  /\ [](Comparing /\ Len(Candidates) >= 1
          => /\ Len(calls) <= Len(Candidates)
             /\ \A i \in DOMAIN calls : calls[i].iteration < Len(Candidates)
             /\ \A j \in DOMAIN cb :
                  cb[j].response.kind = "resultList"
                    => Len(calls) = Len(Candidates) /\ Finished)
  /\ (C9_Started ~> C9_FinalEmitted)

C9_Witness == C9_FinalEmitted /\ Len(Candidates) = MaxLen /\ Failed # {}

\* C10: an invocation calls back at most once.
C10_SingleResponse == Len(cb) <= 1

====
